---- MODULE Spec2Model ----
(***************************************************************************)
(* A model of the web crawler of crawler/crawler.go: the Crawler struct,   *)
(* Crawl, the goroutines running crawlURL, the fetcher getURL, the link    *)
(* extractor and the domain policy.                                        *)
(*                                                                         *)
(* Strings are sequences of symbols.  The symbols "http://", "/", "#",     *)
(* "." and "%" are the delimiters url.Parse and strings.Index look at      *)
(* ("%" stands for an invalid percent escape); every other symbol is an    *)
(* ordinary character (or a run of ordinary characters).                   *)
(***************************************************************************)
EXTENDS Integers, Sequences, FiniteSets, TLC

VARIABLES
    allowedDomains,   \* Crawler.allowedDomains: a sequence of host strings
    maxConcurrency,   \* cap(Crawler.semaphore), the argument of NewCrawler
    semaphore,        \* len(Crawler.semaphore): the tokens in the channel
    closed,           \* whether Crawler.semaphore has been closed
    mutex,            \* Crawler.mutex: NoOne when free, else the goroutine holding it
    wait,             \* the counter of Crawler.wait (sync.WaitGroup)
    discoveredLinks,  \* Crawler.discoveredLinks: link -> reference to a map
    goroutines,       \* the crawlURL goroutines: name -> local state
    mainpc,           \* the position of the caller inside Crawl
    startURL,         \* the argument of Crawl
    server,           \* which web the HTTP requests are answered by
    httpLog,          \* link -> number of client.Do requests sent for it
    admitLog,         \* link -> number of executions of line 106 for it
    domain,           \* the argument of a stand-alone isDomainAllowed call
    allowed,          \* the result of that call
    previous,         \* what the earlier runs of the program discovered, one entry each
    node,             \* the argument of a stand-alone getAttributeValue call
    value             \* the result of that call

vars == <<allowedDomains, maxConcurrency, semaphore, closed, mutex, wait,
          discoveredLinks, goroutines, mainpc, startURL, server, httpLog,
          admitLog, domain, allowed, previous, node, value>>

-----------------------------------------------------------------------------
(* Bounds of the model *)

\* the largest argument of NewCrawler tried
MaxConcurrency == 2

\* the largest argument of NewCrawler tried against mockServer, whose crawl
\* starts nine goroutines from / and ten from /redirect
FixtureConcurrency == 1

\* no run starts more goroutines than this
MaxGoroutines == 10

\* the longest host name given to a stand-alone isDomainAllowed call
MaxHostLen == 4

\* the most attributes on an element given to a stand-alone getAttributeValue call
MaxAttrs == 2

-----------------------------------------------------------------------------
(* Strings *)

EmptyString == <<>>

\* s[from..] of Go (from is 1-based here)
Suffix(s, from) == SubSeq(s, from, Len(s))

\* strings.Index(s, substr): the 0-based position of the first occurrence, or -1
StringsIndex(s, substr) ==
    LET hits == {i \in 0..(Len(s) - Len(substr)) :
                    SubSeq(s, i + 1, i + Len(substr)) = substr}
    IN  IF hits = {} THEN -1 ELSE CHOOSE i \in hits : \A j \in hits : i <= j

\* the 1-based position of the first symbol c of s, or 0
FirstPos(s, c) ==
    LET hits == {i \in 1..Len(s) : s[i] = c}
    IN  IF hits = {} THEN 0 ELSE CHOOSE i \in hits : \A j \in hits : i <= j

\* the 1-based position of the last symbol c of s, or 0
LastPos(s, c) ==
    LET hits == {i \in 1..Len(s) : s[i] = c}
    IN  IF hits = {} THEN 0 ELSE CHOOSE i \in hits : \A j \in hits : i >= j

-----------------------------------------------------------------------------
(* net/url as the crawler uses it *)

\* url.Parse(s): splits off the fragment at the first "#", then the scheme and
\* the authority; fails on an invalid percent escape
UrlParse(s) ==
    LET hash == FirstPos(s, "#")
        main == IF hash = 0 THEN s ELSE SubSeq(s, 1, hash - 1)
        frag == IF hash = 0 THEN EmptyString ELSE Suffix(s, hash + 1)
        abs  == main # <<>> /\ main[1] = "http://"
        rest == IF abs THEN Tail(main) ELSE main
        sl   == FirstPos(rest, "/")
    IN  IF \E i \in 1..Len(s) : s[i] = "%"
        THEN [err |-> TRUE, Scheme |-> "", Host |-> EmptyString,
              Path |-> EmptyString, Fragment |-> EmptyString]
        ELSE [err |-> FALSE,
              Scheme |-> IF abs THEN "http://" ELSE "",
              Host |-> IF ~abs THEN EmptyString
                       ELSE IF sl = 0 THEN rest ELSE SubSeq(rest, 1, sl - 1),
              Path |-> IF ~abs THEN rest
                       ELSE IF sl = 0 THEN EmptyString ELSE Suffix(rest, sl),
              Fragment |-> frag]

\* (*URL).String()
UrlString(u) ==
    (IF u.Scheme = "" THEN <<>> ELSE <<u.Scheme>> \o u.Host)
    \o u.Path
    \o (IF u.Fragment = <<>> THEN <<>> ELSE <<"#">> \o u.Fragment)

\* (*URL).ResolveReference(ref)
ResolveReference(base, ref) ==
    IF ref.Scheme # "" THEN ref
    ELSE IF ref.Path = <<>>
         THEN [base EXCEPT !.Fragment =
                   IF ref.Fragment = <<>> THEN base.Fragment ELSE ref.Fragment]
    ELSE IF ref.Path[1] = "/"
         THEN [base EXCEPT !.Path = ref.Path, !.Fragment = ref.Fragment]
    ELSE [base EXCEPT
             !.Path = (IF LastPos(base.Path, "/") = 0 THEN <<"/">>
                       ELSE SubSeq(base.Path, 1, LastPos(base.Path, "/")))
                      \o ref.Path,
             !.Fragment = ref.Fragment]

\* resolveURL(link, baseURL)
resolveURL(link, baseURL) ==
    LET ref == UrlParse(link)
    IN  IF ref.err THEN EmptyString
        ELSE UrlString([ResolveReference(baseURL, ref) EXCEPT !.Fragment = <<>>])

-----------------------------------------------------------------------------
(* Domain policy *)

\* the loop body's test of isDomainAllowed for one allow-list entry
DomainMatches(allowedDomain, dom) ==
    allowedDomain = dom \/ StringsIndex(dom, <<".">> \o allowedDomain) > 0

\* isDomainAllowed with an empty allow-list allowing every domain
isDomainAllowed_EmptyAllowsAll(dom) ==
    \/ allowedDomains = <<>>
    \/ \E i \in 1..Len(allowedDomains) : DomainMatches(allowedDomains[i], dom)

\* (c *Crawler) isDomainAllowed(domain)
isDomainAllowed(dom) ==
    \E i \in 1..Len(allowedDomains) : DomainMatches(allowedDomains[i], dom)

\* (c *Crawler) isDomainAllowedForLink(link)
isDomainAllowedForLink(link) ==
    LET linkURL == UrlParse(link)
    IN  IF linkURL.err THEN FALSE ELSE isDomainAllowed(linkURL.Host)

\* (c *Crawler) isLocationAllowed(location)
isLocationAllowed(location) ==
    LET locationURL == UrlParse(location)
    IN  IF locationURL.err THEN FALSE ELSE isDomainAllowed(locationURL.Host)

-----------------------------------------------------------------------------
(* Link extraction *)

\* getAttributeValue(n, keys): the value of the first attribute of n, in the
\* order the attributes are written, whose key is one of keys
getAttributeValue(n, keys) ==
    LET hits == {i \in 1..Len(n.Attr) :
                    \E k \in 1..Len(keys) : n.Attr[i].Key = keys[k]}
    IN  IF hits = {} THEN EmptyString
        ELSE n.Attr[CHOOSE i \in hits : \A j \in hits : i <= j].Val

\* newLinks[k] = v of Go
MapSet(m, k, v) == (k :> v) @@ m

\* the switch of traverse, applied to one element node
VisitNode(newLinks, n, baseURL) ==
    IF n.Data = "img"
    THEN LET val == getAttributeValue(n, <<"src">>)
         IN  IF Len(val) > 0 THEN MapSet(newLinks, resolveURL(val, baseURL), FALSE)
             ELSE newLinks
    ELSE IF n.Data \in {"a", "link", "iframe", "embed", "object", "source", "script"}
    THEN LET val == getAttributeValue(n, <<"src", "href">>)
         IN  IF Len(val) > 0 THEN MapSet(newLinks, resolveURL(val, baseURL), TRUE)
             ELSE newLinks
    ELSE IF n.Data = "form"
    THEN LET val == getAttributeValue(n, <<"action">>)
         IN  IF Len(val) > 0 THEN MapSet(newLinks, resolveURL(val, baseURL), FALSE)
             ELSE newLinks
    ELSE newLinks

\* traverse(doc): the element nodes of the tree in document order
RECURSIVE Traverse(_, _, _)
Traverse(newLinks, nodes, baseURL) ==
    IF nodes = <<>> THEN newLinks
    ELSE Traverse(VisitNode(newLinks, Head(nodes), baseURL), Tail(nodes), baseURL)

\* (c *Crawler) extractLinksFromHTML(baseURL, body)
extractLinksFromHTML(baseURL, body) ==
    IF body.unparseable
    THEN [err |-> TRUE, links |-> <<>>]
    ELSE [err |-> FALSE, links |-> Traverse(<<>>, body.tree, baseURL)]

\* extractMetaRefresh(body): the submatch of findMetaRefreshRegexp, or ""
extractMetaRefresh(body) == body.metaRefresh

\* extractLinksFromFile(body, baseURL): one entry per match of findLinkRegexp
RECURSIVE ResolveMatches(_, _, _)
ResolveMatches(newLinks, matches, baseURL) ==
    IF matches = <<>> THEN newLinks
    ELSE ResolveMatches(MapSet(newLinks, resolveURL(Head(matches), baseURL), TRUE),
                        Tail(matches), baseURL)

extractLinksFromFile(body, baseURL) == ResolveMatches(<<>>, body.httpLinks, baseURL)

\* strings.Contains(contentType, "/javascript") || strings.Contains(contentType, "/css")
IsScriptOrStyle(contentType) ==
    contentType \in {"text/javascript", "application/javascript", "text/css"}

\* (c *Crawler) extractLinks(baseURL, body, contentType)
extractLinks(baseURL, body, contentType) ==
    IF IsScriptOrStyle(contentType)
    THEN [err |-> FALSE, links |-> extractLinksFromFile(body, baseURL)]
    ELSE LET html == extractLinksFromHTML(baseURL, body)
             metaRefresh == extractMetaRefresh(body)
         IN  IF html.err THEN html
             ELSE IF metaRefresh # EmptyString
             THEN [err |-> FALSE,
                   links |-> MapSet(html.links, resolveURL(metaRefresh, baseURL), TRUE)]
             ELSE html

\* uniqueStrings(input): the first occurrence of each string, in order
RECURSIVE uniqueStrings(_)
uniqueStrings(input) ==
    IF input = <<>> THEN <<>>
    ELSE LET init == uniqueStrings(SubSeq(input, 1, Len(input) - 1))
             last == input[Len(input)]
         IN  IF \E i \in 1..Len(init) : init[i] = last THEN init
             ELSE Append(init, last)

-----------------------------------------------------------------------------
(* The webs the crawler is run against.  "fixture" is mockServer of       *)
(* crawler/fixtures_test.go; the others are further finite link graphs.   *)

H == <<"h">>                \* the host of the server
SubH == <<"s", ".", "h">>   \* a subdomain of it
ExtH == <<"x">>             \* an unrelated host
EvilH == <<"s", ".", "h", ".", "x">>   \* a host of another domain that contains ".h"

Link(host, path) == <<"http://">> \o host \o path

Attr(key, val) == [Key |-> key, Val |-> val]
A(href) == [Data |-> "a", Attr |-> <<Attr("href", href)>>]
Img(src) == [Data |-> "img", Attr |-> <<Attr("src", src)>>]
Form(action) == [Data |-> "form", Attr |-> <<Attr("action", action)>>]

Html(nodes) ==
    [unparseable |-> FALSE, tree |-> nodes, metaRefresh |-> EmptyString,
     httpLinks |-> <<>>]
Unparseable ==
    [unparseable |-> TRUE, tree |-> <<>>, metaRefresh |-> EmptyString,
     httpLinks |-> <<>>]
Script(matches) ==
    [unparseable |-> FALSE, tree |-> <<>>, metaRefresh |-> EmptyString,
     httpLinks |-> matches]

Response(status, contentType, location, body) ==
    [failed |-> FALSE, StatusCode |-> status, ContentType |-> contentType,
     Location |-> location, Body |-> body, truncated |-> FALSE]
Ok(contentType, body) == Response(200, contentType, EmptyString, body)
Redirect(status, location) == Response(status, "", location, Html(<<>>))
Status(status) == Response(status, "", EmptyString, Html(<<>>))
NoConnection ==
    [failed |-> TRUE, StatusCode |-> 0, ContentType |-> "",
     Location |-> EmptyString, Body |-> Html(<<>>), truncated |-> FALSE]

\* the handler of "/" of mockServer, which also serves every unregistered path
FixtureRoot ==
    Ok("text/html", Html(<<A(<<"/", "page1">>), A(<<"/", "page2">>),
                           Img(<<"/", "image", ".", "jpg">>)>>))

FixtureServer(host, path) ==
    IF host # H THEN NoConnection
    ELSE IF path = <<"/", "page1">>
         THEN Ok("text/html", Html(<<A(<<"/">>), A(<<"/", "page3">>)>>))
    ELSE IF path = <<"/", "redirect">> THEN Redirect(301, <<"/">>)
    ELSE IF path = <<"/", "error">> THEN Status(500)
    ELSE FixtureRoot

\* a cycle / -> /a -> /, and /a and /b linked from two pages each
CycleServer(host, path) ==
    IF host # H THEN NoConnection
    ELSE IF path = <<"/">>
         THEN Ok("text/html", Html(<<A(<<"/", "a">>), A(<<"/", "b">>)>>))
    ELSE IF path = <<"/", "a">>
         THEN Ok("text/html", Html(<<A(<<"/">>), A(<<"/", "b">>)>>))
    ELSE IF path = <<"/", "b">>
         THEN Ok("text/html", Html(<<A(<<"/", "a">>)>>))
    ELSE Status(404)

\* /b is a link of / and an image of /a
OverlapServer(host, path) ==
    IF host # H THEN NoConnection
    ELSE IF path = <<"/">>
         THEN Ok("text/html", Html(<<A(<<"/", "a">>), A(<<"/", "b">>)>>))
    ELSE IF path = <<"/", "a">>
         THEN Ok("text/html", Html(<<Img(<<"/", "b">>)>>))
    ELSE IF path = <<"/", "b">>
         THEN Ok("text/html", Html(<<A(<<"/", "c">>)>>))
    ELSE Status(404)

\* links to a subdomain and to another host, leaves, a script, redirects (to
\* a page, to other hosts, and one without a Location)
MixedServer(host, path) ==
    IF host = H /\ path = <<"/">>
    THEN Ok("text/html", Html(<<A(Link(SubH, <<"/">>)), A(Link(ExtH, <<"/", "p">>)),
                                A(Link(EvilH, <<"/">>)),
                                Img(Link(ExtH, <<"/", "i">>)), Form(<<"/", "f">>)>>))
    ELSE IF host = SubH /\ path = <<"/">>
    THEN Ok("text/javascript", Script(<<Link(H, <<"/", "r", "#", "top">>),
                                        Link(EvilH, <<"/">>)>>))
    ELSE IF host = H /\ path = <<"/", "r">> THEN Redirect(302, <<"/", "e">>)
    ELSE IF host = H /\ path = <<"/", "e">> THEN Ok("text/html", Unparseable)
    ELSE IF host = H /\ path = <<"/", "out">>
    THEN Redirect(308, Link(ExtH, <<"/">>))
    ELSE IF host = H /\ path = <<"/", "t">>
    THEN [Ok("text/html", Html(<<>>)) EXCEPT !.truncated = TRUE]
    ELSE IF host = H /\ path = <<"/", "v">>
    THEN Redirect(301, Link(EvilH, <<"/", "#", "f">>))
    ELSE IF host = H /\ path = <<"/", "n">> THEN Redirect(302, EmptyString)
    ELSE IF host \in {H, SubH} THEN Status(404)
    ELSE NoConnection

\* /b answers 500 and is a link of / and an image of /a
LeafErrServer(host, path) ==
    IF host # H THEN NoConnection
    ELSE IF path = <<"/">>
         THEN Ok("text/html", Html(<<A(<<"/", "a">>), A(<<"/", "b">>)>>))
    ELSE IF path = <<"/", "a">>
         THEN Ok("text/html", Html(<<Img(<<"/", "b">>)>>))
    ELSE IF path = <<"/", "b">> THEN Status(500)
    ELSE Status(404)

Servers == {"cycle", "overlap", "leaferr", "mixed"}

\* client.Do(req) for a GET of link: the response of the server
ClientDo(srv, link) ==
    LET u == UrlParse(link)
    IN  IF srv = "fixture" THEN FixtureServer(u.Host, u.Path)
        ELSE IF srv = "cycle" THEN CycleServer(u.Host, u.Path)
        ELSE IF srv = "overlap" THEN OverlapServer(u.Host, u.Path)
        ELSE IF srv = "leaferr" THEN LeafErrServer(u.Host, u.Path)
        ELSE MixedServer(u.Host, u.Path)

\* the start URLs tried against each server
StartURLs(srv) ==
    IF srv = "fixture"
    THEN {Link(H, <<"/">>), Link(H, <<"/", "redirect">>), Link(H, <<"/", "error">>)}
    ELSE IF srv \in {"cycle", "overlap"} THEN {Link(H, <<"/">>)}
    ELSE IF srv = "leaferr" THEN {Link(H, <<"/">>), Link(H, <<"/", "b">>)}
    ELSE {Link(H, <<"/">>), Link(H, <<"/", "out">>), Link(H, <<"/", "t">>),
          Link(H, <<"/", "v">>), Link(H, <<"/", "n">>),
          Link(ExtH, <<"/">>), <<"%">>}

\* the allow-lists tried: none set, and the host of the server
AllowLists == {<<>>, <<H>>}

-----------------------------------------------------------------------------
(* The fetcher *)

RedirectStatuses == {301, 302, 308}

\* the nil error
Nil == <<>>

\* (c *Crawler) getURL(link), from the return of client.Do on:
\* (body, contentType, location, err)
getURL(resp) ==
    LET none == Html(<<>>)
    IN  IF resp.failed
        THEN [body |-> none, contentType |-> "", location |-> EmptyString,
              err |-> <<"transport error">>]
        ELSE IF resp.StatusCode \in RedirectStatuses
        THEN [body |-> none, contentType |-> resp.ContentType,
              location |-> resp.Location, err |-> Nil]
        ELSE IF resp.StatusCode # 200
        THEN [body |-> none, contentType |-> "", location |-> EmptyString,
              err |-> <<resp.StatusCode, "status code">>]
        ELSE IF resp.truncated
        THEN [body |-> none, contentType |-> "", location |-> EmptyString,
              err |-> <<"Error reading URL body">>]
        ELSE [body |-> resp.Body, contentType |-> resp.ContentType,
              location |-> EmptyString, err |-> Nil]

-----------------------------------------------------------------------------
(* The crawler *)

\* a goroutine at the first statement of crawlURL(link)
NewGoroutine(link) ==
    [pc |-> "acquire", link |-> link, linkDetails |-> <<>>,
     linksDetails |-> <<>>, links |-> <<>>]

\* A goroutine is named by the links that led to it: the one Crawl starts is
\* <<startURL>>, and the one goroutine t starts for newLink is Append(t, newLink).
Goroutines == DOMAIN goroutines

\* the value of mutex when it is not held
NoOne == <<>>

\* a reference stored in discoveredLinks is the name of the goroutine whose
\* linkDetails map it is, or LeafMap for a map made at line 137, which no
\* goroutine keeps a reference to
LeafMap == <<>>

\* the map discoveredLinks[link] refers to
Details(link) ==
    IF discoveredLinks[link] = LeafMap THEN <<>>
    ELSE goroutines[discoveredLinks[link]].linkDetails

\* the contents of c.discoveredLinks: link -> the map stored for it
Registry == [link \in DOMAIN discoveredLinks |-> Details(link)]

\* m[k]++ on a log
Count(log, k) == IF k \in DOMAIN log THEN log[k] ELSE 0
Logged(log, k) == MapSet(log, k, Count(log, k) + 1)

\* the node when no stand-alone getAttributeValue call is made
NoNode == [Data |-> "", Attr |-> <<>>]

\* NewCrawler(n), about to crawl the web srv
NewCrawler(srv, n) ==
    /\ allowedDomains = <<>>
    /\ maxConcurrency = n
    /\ semaphore = 0
    /\ closed = FALSE
    /\ mutex = NoOne
    /\ wait = 0
    /\ discoveredLinks = <<>>
    /\ goroutines = <<>>
    /\ mainpc = "new"
    /\ startURL = EmptyString
    /\ server = srv
    /\ httpLog = <<>>
    /\ admitLog = <<>>
    /\ domain = EmptyString
    /\ allowed = FALSE
    /\ previous = <<>>
    /\ node = NoNode
    /\ value = EmptyString

Init == \E srv \in Servers, n \in 1..MaxConcurrency : NewCrawler(srv, n)

\* the crawler of the tests, against mockServer
InitFixture == \E n \in 1..FixtureConcurrency : NewCrawler("fixture", n)

\* (c *Crawler) SetAllowedDomains(allowedDomains), called as main does
SetAllowedDomains ==
    /\ mainpc = "new"
    /\ \E list \in AllowLists \ {<<>>} : allowedDomains' = list
    /\ mainpc' = "configured"
    /\ UNCHANGED <<maxConcurrency, semaphore, closed, mutex, wait, discoveredLinks,
                   goroutines, startURL, server, httpLog, admitLog, domain, allowed, previous,
                   node, value>>

\* Added with the increment left out
Added_NoAdd == wait

\* the counter of c.wait after c.wait.Add(1)
Added == wait + 1

\* Crawl, lines 46 and 48: c.wait.Add(1); go c.crawlURL(startURL)
Crawl ==
    /\ mainpc \in {"new", "configured"}
    /\ \E u \in StartURLs(server) :
          /\ startURL' = u
          /\ goroutines' = MapSet(goroutines, <<u>>, NewGoroutine(u))
    /\ wait' = Added
    /\ mainpc' = "wait"
    /\ UNCHANGED <<allowedDomains, maxConcurrency, semaphore, closed, mutex,
                   discoveredLinks, server, httpLog, admitLog, domain, allowed, previous,
                   node, value>>

\* WaitReturns with a Wait that does not block
WaitReturns_Early == TRUE

\* c.wait.Wait() does not block
WaitReturns == wait = 0

\* Crawl, line 50: c.wait.Wait() returns
CrawlWait ==
    /\ mainpc = "wait"
    /\ WaitReturns
    /\ mainpc' = "close"
    /\ UNCHANGED <<allowedDomains, maxConcurrency, semaphore, closed, mutex, wait,
                   discoveredLinks, goroutines, startURL, server, httpLog, admitLog,
                   domain, allowed, previous,
                   node, value>>

\* Crawl, line 51: close(c.semaphore), and the return
CrawlClose ==
    /\ mainpc = "close"
    /\ closed' = TRUE
    /\ mainpc' = "returned"
    /\ UNCHANGED <<allowedDomains, maxConcurrency, semaphore, mutex, wait,
                   discoveredLinks, goroutines, startURL, server, httpLog, admitLog,
                   domain, allowed, previous,
                   node, value>>

\* CanSend with a channel that never fills
CanSend_Unbuffered == TRUE

\* a send on c.semaphore does not block
CanSend == semaphore < maxConcurrency

\* line 88: c.semaphore <- struct{}{}
Acquire(t) ==
    /\ goroutines[t].pc = "acquire"
    /\ ~closed
    /\ CanSend
    /\ semaphore' = semaphore + 1
    /\ goroutines' = [goroutines EXCEPT ![t].pc = "check"]
    /\ UNCHANGED <<allowedDomains, maxConcurrency, closed, mutex, wait,
                   discoveredLinks, mainpc, startURL, server, httpLog, admitLog,
                   domain, allowed, previous,
                   node, value>>

\* CanLock with a mutex that excludes no one
CanLock_NoExclusion == TRUE

\* c.mutex.Lock() does not block
CanLock == mutex = NoOne

\* lines 91-96: c.mutex.Lock() and the membership test; a goroutine that finds
\* its link unlocks and returns, another one goes on holding the mutex
Check(t) ==
    /\ goroutines[t].pc = "check"
    /\ CanLock
    /\ IF goroutines[t].link \in DOMAIN discoveredLinks
       THEN /\ mutex' = NoOne
            /\ goroutines' = [goroutines EXCEPT ![t].pc = "release"]
       ELSE /\ mutex' = t
            /\ goroutines' = [goroutines EXCEPT ![t].pc = "admit"]
    /\ UNCHANGED <<allowedDomains, maxConcurrency, semaphore, closed, wait,
                   discoveredLinks, mainpc, startURL, server, httpLog, admitLog,
                   domain, allowed, previous,
                   node, value>>

\* the test of line 101
Rejected(link) ==
    LET baseURL == UrlParse(link)
    IN  IF baseURL.err THEN TRUE ELSE ~isDomainAllowed(baseURL.Host)

\* lines 98-107: the parse, the policy test and the insert
Admit(t) ==
    LET link == goroutines[t].link
    IN  /\ goroutines[t].pc = "admit"
        /\ IF Rejected(link)
           THEN /\ goroutines' = [goroutines EXCEPT ![t].pc = "release"]
                /\ UNCHANGED <<discoveredLinks, admitLog>>
           ELSE /\ discoveredLinks' = MapSet(discoveredLinks, link, t)
                /\ admitLog' = Logged(admitLog, link)
                /\ goroutines' = [goroutines EXCEPT ![t].pc = "fetch"]
        /\ mutex' = NoOne
        /\ UNCHANGED <<allowedDomains, maxConcurrency, semaphore, closed, wait,
                       mainpc, startURL, server, httpLog, domain, allowed, previous,
                   node, value>>

\* lines 110-130 for goroutine g: the fields it writes to its linkDetails and
\* where it goes on, given the result of getURL, the resolved location and
\* what extractLinks returns
AfterFetch(g, got, newLocationURL, found) ==
    IF got.err # Nil
    THEN [g EXCEPT !.linkDetails = MapSet(@, "err", got.err),
                   !.pc = "release"]
    ELSE IF Len(got.location) > 0
    THEN [g EXCEPT !.linkDetails =
                       MapSet(MapSet(@, "contentType", got.contentType),
                              "newLocation", newLocationURL),
                   !.links = IF isLocationAllowed(newLocationURL)
                             THEN <<newLocationURL>> ELSE <<>>,
                   !.pc = IF isLocationAllowed(newLocationURL)
                          THEN "spawn" ELSE "release"]
    ELSE IF found.err
    THEN [g EXCEPT !.linkDetails = MapSet(@, "contentType", got.contentType),
                   !.pc = "release"]
    ELSE [g EXCEPT !.linkDetails = MapSet(@, "contentType", got.contentType),
                   !.linksDetails = found.links,
                   !.pc = "leaves"]

\* lines 109-130: the request, and what is recorded of its outcome
Fetch(t) ==
    /\ goroutines[t].pc = "fetch"
    /\ httpLog' = Logged(httpLog, goroutines[t].link)
    /\ \E resp \in {ClientDo(server, goroutines[t].link)},
          baseURL \in {UrlParse(goroutines[t].link)} :
       \E got \in {getURL(resp)} :
          \E newLocationURL \in {resolveURL(got.location, baseURL)},
             found \in {extractLinks(baseURL, got.body, got.contentType)} :
              goroutines' =
                  [goroutines EXCEPT
                      ![t] = AfterFetch(goroutines[t], got, newLocationURL, found)]
    /\ UNCHANGED <<allowedDomains, maxConcurrency, semaphore, closed, mutex, wait,
                   discoveredLinks, mainpc, startURL, server, admitLog, domain,
                   allowed, previous,
                   node, value>>

\* the orders in which range may visit the keys of a map
RangeOrders(m) ==
    {order \in [1..Cardinality(DOMAIN m) -> DOMAIN m] :
        \A i, j \in DOMAIN order : order[i] = order[j] => i = j}

\* LeafEntry with the insertion left out
LeafEntry_NoInsert(discovered, link) == discovered

\* line 137: what the loop stores for a link that needs no crawling
LeafEntry(discovered, link) == MapSet(discovered, link, LeafMap)

\* lines 133-139: the loop over linksDetails, visiting its keys in order
RECURSIVE RangeLinks(_, _, _)
RangeLinks(acc, linksDetails, order) ==
    IF order = <<>> THEN acc
    ELSE LET link == Head(order)
         IN  RangeLinks(
                 IF linksDetails[link]
                 THEN [acc EXCEPT !.links = Append(@, link)]
                 ELSE IF isDomainAllowedForLink(link)
                 THEN [acc EXCEPT !.discovered = LeafEntry(@, link)]
                 ELSE acc,
                 linksDetails, Tail(order))

\* lines 132-142: under the mutex, the leaves are stored and the links to
\* crawl are collected
Leaves(t) ==
    /\ goroutines[t].pc = "leaves"
    /\ CanLock
    /\ \E order \in RangeOrders(goroutines[t].linksDetails) :
       \E out \in {RangeLinks([links |-> <<>>, discovered |-> discoveredLinks],
                              goroutines[t].linksDetails, order)} :
       \E links \in {uniqueStrings(out.links)} :
          /\ discoveredLinks' = out.discovered
          /\ goroutines' = [goroutines EXCEPT
                               ![t].links = links,
                               ![t].linksDetails = <<>>,
                               ![t].pc = IF links = <<>> THEN "release"
                                         ELSE "spawn"]
    /\ mutex' = NoOne
    /\ UNCHANGED <<allowedDomains, maxConcurrency, semaphore, closed, wait,
                   mainpc, startURL, server, httpLog, admitLog, domain, allowed, previous,
                   node, value>>

\* lines 145-148, one iteration: c.wait.Add(1); go c.crawlURL(newLink)
Spawn(t) ==
    /\ goroutines[t].pc = "spawn"
    /\ Cardinality(Goroutines) < MaxGoroutines
    /\ wait' = Added
    /\ goroutines' =
          MapSet([goroutines EXCEPT
                     ![t].links = Tail(@),
                     ![t].pc = IF Tail(goroutines[t].links) = <<>> THEN "release"
                               ELSE "spawn"],
                 Append(t, Head(goroutines[t].links)),
                 NewGoroutine(Head(goroutines[t].links)))
    /\ UNCHANGED <<allowedDomains, maxConcurrency, semaphore, closed, mutex,
                   discoveredLinks, mainpc, startURL, server, httpLog, admitLog,
                   domain, allowed, previous,
                   node, value>>

\* Received with the deferred receive left out
Received_NoReceive == semaphore

\* the tokens left in c.semaphore after a receive
Received == semaphore - 1

\* line 89, deferred: <-c.semaphore
Release(t) ==
    /\ goroutines[t].pc = "release"
    /\ semaphore > 0
    /\ semaphore' = Received
    /\ goroutines' = [goroutines EXCEPT ![t].pc = "done"]
    /\ UNCHANGED <<allowedDomains, maxConcurrency, closed, mutex, wait,
                   discoveredLinks, mainpc, startURL, server, httpLog, admitLog,
                   domain, allowed, previous,
                   node, value>>

\* line 85, deferred: c.wait.Done()
Done(t) ==
    /\ goroutines[t].pc = "done"
    /\ wait' = wait - 1
    /\ goroutines' = [goroutines EXCEPT ![t].pc = "exited"]
    /\ UNCHANGED <<allowedDomains, maxConcurrency, semaphore, closed, mutex,
                   discoveredLinks, mainpc, startURL, server, httpLog, admitLog,
                   domain, allowed, previous,
                   node, value>>

Next ==
    \/ SetAllowedDomains
    \/ Crawl
    \/ CrawlWait
    \/ CrawlClose
    \/ \E t \in Goroutines : Done(t)
    \/ \E t \in Goroutines : Release(t)
    \/ \E t \in Goroutines : Acquire(t)
    \/ \E t \in Goroutines : Spawn(t)
    \/ \E t \in Goroutines : Check(t)
    \/ \E t \in Goroutines : Admit(t)
    \/ \E t \in Goroutines : Leaves(t)
    \/ \E t \in Goroutines : Fetch(t)

Spec == Init /\ [][Next]_vars

\* the crawls of mockServer
SpecFixture == InitFixture /\ [][Next]_vars

\* main run a second time with the same START_URL and ALLOWED_DOMAINS against
\* the same server: a new Crawler, of any concurrency, and what the first run
\* discovered kept for comparison
Rerun ==
    /\ mainpc = "returned"
    /\ previous = <<>>
    /\ previous' = <<Registry>>
    /\ maxConcurrency' \in 1..MaxConcurrency
    /\ semaphore' = 0
    /\ closed' = FALSE
    /\ mutex' = NoOne
    /\ wait' = 1
    /\ discoveredLinks' = <<>>
    /\ goroutines' = MapSet(<<>>, <<startURL>>, NewGoroutine(startURL))
    /\ mainpc' = "wait"
    /\ httpLog' = <<>>
    /\ admitLog' = <<>>
    /\ UNCHANGED <<allowedDomains, startURL, server, domain, allowed, node, value>>

NextRerun == Next \/ Rerun

SpecRerun == Init /\ [][NextRerun]_vars

\* a second call of Crawl on the Crawler whose first Crawl has returned
CrawlAgain ==
    /\ mainpc = "returned"
    /\ \E u \in StartURLs(server) :
          /\ startURL' = u
          /\ goroutines' = MapSet(goroutines, << <<"second">>, u >>, NewGoroutine(u))
    /\ wait' = Added
    /\ mainpc' = "wait"
    /\ UNCHANGED <<allowedDomains, maxConcurrency, semaphore, closed, mutex,
                   discoveredLinks, server, httpLog, admitLog, domain, allowed,
                   previous, node, value>>

\* line 88 on the channel closed at line 51: the send panics, which ends the
\* program
SendOnClosed(t) ==
    /\ goroutines[t].pc = "acquire"
    /\ closed
    /\ goroutines' = [goroutines EXCEPT ![t].pc = "panicked"]
    /\ mainpc' = "crashed"
    /\ UNCHANGED <<allowedDomains, maxConcurrency, semaphore, closed, mutex, wait,
                   discoveredLinks, startURL, server, httpLog, admitLog, domain,
                   allowed, previous, node, value>>

NextReuse ==
    \/ Next
    \/ CrawlAgain
    \/ \E t \in Goroutines : SendOnClosed(t)

SpecReuse == Init /\ [][NextReuse]_vars

\* the host names and allow-lists given to a stand-alone isDomainAllowed call
HostSymbols == {"a", "e", "."}

WellFormed(host) ==
    /\ Len(host) > 0
    /\ host[1] # "." /\ host[Len(host)] # "."
    /\ \A i \in 1..(Len(host) - 1) : ~(host[i] = "." /\ host[i + 1] = ".")

HostNames ==
    {host \in UNION {[1..n -> HostSymbols] : n \in 1..MaxHostLen} : WellFormed(host)}

PolicyLists == {<<>>, << <<"e">> >>, << <<"a">>, <<"e", ".", "a">> >>}

InitPolicy ==
    /\ allowedDomains \in PolicyLists
    /\ domain \in HostNames
    /\ allowed = FALSE
    /\ mainpc = "policy"
    /\ maxConcurrency = 1
    /\ semaphore = 0
    /\ closed = FALSE
    /\ mutex = NoOne
    /\ wait = 0
    /\ discoveredLinks = <<>>
    /\ goroutines = <<>>
    /\ startURL = EmptyString
    /\ server = "none"
    /\ httpLog = <<>>
    /\ admitLog = <<>>
    /\ previous = <<>>
    /\ node = NoNode
    /\ value = EmptyString

\* a call c.isDomainAllowed(domain)
CallIsDomainAllowed ==
    /\ mainpc = "policy"
    /\ allowed' = isDomainAllowed(domain)
    /\ mainpc' = "answered"
    /\ UNCHANGED <<allowedDomains, maxConcurrency, semaphore, closed, mutex, wait,
                   discoveredLinks, goroutines, startURL, server, httpLog, admitLog,
                   domain, previous,
                   node, value>>

SpecPolicy == InitPolicy /\ [][CallIsDomainAllowed]_vars

\* the elements given to a stand-alone getAttributeValue call: traversal
\* elements with up to MaxAttrs attributes, no key twice
AttrKeys == {"src", "href", "id"}
AttrVals == {<<"/", "u">>, <<"/", "v">>}
Attrs == [Key : AttrKeys, Val : AttrVals]

AttrLists ==
    {attrs \in UNION {[1..k -> Attrs] : k \in 0..MaxAttrs} :
        \A i, j \in DOMAIN attrs : attrs[i].Key = attrs[j].Key => i = j}

Elements == [Data : {"a", "link", "iframe", "embed", "object", "source", "script"},
             Attr : AttrLists]

InitAttr ==
    /\ node \in Elements
    /\ value = EmptyString
    /\ mainpc = "attr"
    /\ allowedDomains = <<>>
    /\ maxConcurrency = 1
    /\ semaphore = 0
    /\ closed = FALSE
    /\ mutex = NoOne
    /\ wait = 0
    /\ discoveredLinks = <<>>
    /\ goroutines = <<>>
    /\ startURL = EmptyString
    /\ server = "none"
    /\ httpLog = <<>>
    /\ admitLog = <<>>
    /\ domain = EmptyString
    /\ allowed = FALSE
    /\ previous = <<>>

\* line 230: val := getAttributeValue(n, []string{"src", "href"})
CallGetAttributeValue ==
    /\ mainpc = "attr"
    /\ value' = getAttributeValue(node, <<"src", "href">>)
    /\ mainpc' = "valued"
    /\ UNCHANGED <<allowedDomains, maxConcurrency, semaphore, closed, mutex, wait,
                   discoveredLinks, goroutines, startURL, server, httpLog, admitLog,
                   domain, allowed, previous, node>>

SpecAttr == InitAttr /\ [][CallGetAttributeValue]_vars

\* The Go scheduler runs a goroutine that can run, and every request returns:
\* the program does not stop while a step is possible.
SpecFair == Spec /\ WF_vars(Next)

-----------------------------------------------------------------------------
(* Properties *)

Returned == mainpc = "returned"

\* goroutine t has sent on c.semaphore and not yet received from it
HoldsToken(t) ==
    goroutines[t].pc \in {"check", "admit", "fetch", "leaves", "spawn", "release"}

TokenHolders == {t \in Goroutines : HoldsToken(t)}

\* a terminal outcome is recorded in the map m
HasOutcome(m) == DOMAIN m \cap {"contentType", "newLocation", "err"} # {}

\* Domain Policy as the specification states it: the allow-list is non-empty
\* and the host equals an entry or ends with "." followed by an entry
EndsWith(s, suffix) ==
    Len(s) >= Len(suffix) /\ Suffix(s, Len(s) - Len(suffix) + 1) = suffix

PolicyAllows(list, host) ==
    /\ list # <<>>
    /\ \E i \in 1..Len(list) :
          host = list[i] \/ EndsWith(host, <<".">> \o list[i])

\* C1: once Crawl is called, under fair scheduling the Outstanding Work Counter
\* reaches zero and Crawl returns, whatever the web (cycles, redirects, failing
\* fetches), the allow-list and the concurrency; no interleaving deadlocks.
C1_Termination == (mainpc = "wait") ~> (Returned /\ wait = 0)

\* C1 witness: the crawl of the web with the cycle / -> /a -> / has returned,
\* all six goroutines done
C1_Witness ==
    /\ Returned
    /\ server = "cycle"
    /\ Cardinality(Goroutines) = 6
    /\ \A t \in Goroutines : goroutines[t].pc = "exited"
    /\ Cardinality(DOMAIN httpLog) = 3

\* C2: the goroutines that have acquired a token and not yet released it are
\* never more than the max concurrency given to NewCrawler.
C2_ConcurrencyBound == Cardinality(TokenHolders) <= maxConcurrency

\* C2 witness: the pool is exhausted by two goroutines, one of them fetching,
\* and a third goroutine waits for a token
C2_Witness ==
    /\ maxConcurrency = 2
    /\ Cardinality(TokenHolders) = 2
    /\ \E t \in Goroutines : goroutines[t].pc = "fetch"
    /\ \E t \in Goroutines : goroutines[t].pc = "acquire"

\* C3: for every URL at most one goroutine passes admission and at most one
\* fetch is issued, and a goroutine between its membership test and its insert
\* holds the mutex with its URL still absent.
C3_Dedup ==
    /\ \A u \in DOMAIN admitLog : admitLog[u] <= 1
    /\ \A u \in DOMAIN httpLog : httpLog[u] <= 1
    /\ \A t \in Goroutines :
          goroutines[t].pc = "admit" =>
              /\ mutex = t
              /\ goroutines[t].link \notin DOMAIN discoveredLinks

\* C3 witness: two goroutines were started for one URL; one has admitted it
\* and is fetching, the other has found it present and is on its way out
C3_Witness ==
    \E t1, t2 \in Goroutines :
        /\ t1 # t2
        /\ goroutines[t1].link = goroutines[t2].link
        /\ goroutines[t1].pc = "fetch"
        /\ goroutines[t2].pc = "release"
        /\ Count(admitLog, goroutines[t1].link) = 1

\* the link is parseable and its host passes Domain Policy
Permitted(link) ==
    /\ ~UrlParse(link).err
    /\ PolicyAllows(allowedDomains, UrlParse(link).Host)

\* C4: when Crawl has returned, every URL a goroutine was started for (the seed,
\* a traversal candidate or a redirect target) whose host passes Domain Policy
\* has been fetched exactly once and has its outcome in the Registry.
C4_VisitedExactlyOnce ==
    Returned =>
        \A t \in Goroutines :
            Permitted(goroutines[t].link) =>
                /\ Count(httpLog, goroutines[t].link) = 1
                /\ goroutines[t].link \in DOMAIN discoveredLinks
                /\ HasOutcome(Details(goroutines[t].link))

\* C5: for a fixed seed, allow-list and server, the Registry at the return of
\* Crawl is the same in every run, whatever the interleaving and the
\* concurrency: a second run ends with the Registry the first one ended with.
C5_Deterministic == (Returned /\ previous # <<>>) => Registry = previous[1]

\* C6: an entry of the Registry, once created, is never replaced, and an
\* outcome, once recorded on the entry of a URL, stays on it unchanged.
C6_EntryLifecycle ==
    [][\A u \in DOMAIN discoveredLinks :
          /\ u \in DOMAIN discoveredLinks'
          /\ discoveredLinks'[u] = discoveredLinks[u]
          /\ HasOutcome(Registry[u]) => Registry'[u] = Registry[u]]_vars

\* C7: every key of the Registry is a parseable URL whose host passes Domain
\* Policy, and so is every URL a fetch is issued for.
C7_DomainPolicyInvariant ==
    /\ \A u \in DOMAIN discoveredLinks : Permitted(u)
    /\ \A u \in DOMAIN httpLog : Permitted(u)

\* What holds instead of C7: every key of the Registry and every fetched URL
\* is parseable and has passed isDomainAllowed.
GatedByIsDomainAllowed ==
    /\ \A u \in DOMAIN discoveredLinks : ~Rejected(u)
    /\ \A u \in DOMAIN httpLog : ~Rejected(u)

\* C8: isDomainAllowed(host) is true if and only if the allow-list is non-empty
\* and host equals an entry or ends with "." followed by an entry.
C8_PolicyResult ==
    mainpc = "answered" => (allowed <=> PolicyAllows(allowedDomains, domain))

FixtureLinks ==
    {Link(H, <<"/">>), Link(H, <<"/", "page1">>), Link(H, <<"/", "page2">>),
     Link(H, <<"/", "page3">>), Link(H, <<"/", "image", ".", "jpg">>)}

\* C10: when SetAllowedDomains was never called, Crawl of the root of the test
\* server fetches the seed and returns with the seed and every linked URL in
\* the Registry.
C10_EmptyAllowListAllowsAll ==
    (Returned /\ allowedDomains = <<>> /\ startURL = Link(H, <<"/">>)) =>
        /\ Count(httpLog, startURL) = 1
        /\ FixtureLinks \subseteq DOMAIN discoveredLinks

\* the response to u is a 301, 302 or 308 that carries a Location
RedirectWithLocation(u) ==
    LET resp == ClientDo(server, u)
    IN  ~resp.failed /\ resp.StatusCode \in RedirectStatuses /\ Len(resp.Location) > 0

\* the Location of the response to u, resolved against u, without its fragment
RedirectTarget(u) == resolveURL(ClientDo(server, u).Location, UrlParse(u))

\* the goroutines started by goroutine t
Children(t) ==
    {c \in Goroutines : Len(c) = Len(t) + 1 /\ SubSeq(c, 1, Len(t)) = t}

\* the redirect answered for u was handled: the target is recorded on the entry
\* of u, and one goroutine was started for it, leaving it in the Registry, if
\* follow, and no goroutine and no entry otherwise
RedirectHandled(u, follow) ==
    /\ u \in DOMAIN discoveredLinks
    /\ discoveredLinks[u] # LeafMap
    /\ "newLocation" \in DOMAIN Details(u)
    /\ Details(u)["newLocation"] = RedirectTarget(u)
    /\ Children(discoveredLinks[u]) =
          IF follow THEN {Append(discoveredLinks[u], RedirectTarget(u))} ELSE {}
    /\ RedirectTarget(u) \in DOMAIN discoveredLinks <=> follow

\* C11: when Crawl has returned, every fetched URL answered by 301, 302 or 308
\* with a Location has the resolved, fragment-free target on its entry, and one
\* task was scheduled for the target, which then has an entry, exactly when the
\* target's host passes Domain Policy.
C11_RedirectResolution ==
    Returned =>
        \A u \in DOMAIN httpLog :
            RedirectWithLocation(u) =>
                RedirectHandled(u, PolicyAllows(allowedDomains,
                                                UrlParse(RedirectTarget(u)).Host))

\* What holds instead of C11: the target is followed exactly when it passes
\* isLocationAllowed.
RedirectsFollowIsLocationAllowed ==
    Returned =>
        \A u \in DOMAIN httpLog :
            RedirectWithLocation(u) =>
                RedirectHandled(u, isLocationAllowed(RedirectTarget(u)))

\* the error getURL returns for u, Nil if it returns none
FetchError(u) == getURL(ClientDo(server, u)).err

\* goroutine t has come back from a failed getURL
Failed(t) == "err" \in DOMAIN goroutines[t].linkDetails

\* C12: a task whose fetch failed has the error message, and nothing else, on
\* the Registry entry of its URL, has scheduled no task and goes on to its
\* exit; the crawl of a seed answered by 500 returns with that one errored
\* entry as its Registry.
C12_ErrorLocality ==
    /\ \A t \in Goroutines :
          Failed(t) =>
              /\ goroutines[t].link \in DOMAIN discoveredLinks
              /\ Details(goroutines[t].link) =
                     MapSet(<<>>, "err", FetchError(goroutines[t].link))
              /\ Children(t) = {}
              /\ goroutines[t].pc \in {"release", "done", "exited"}
    /\ (Returned /\ startURL \in DOMAIN httpLog
           /\ FetchError(startURL) = <<500, "status code">>) =>
          Registry = MapSet(<<>>, startURL, MapSet(<<>>, "err", FetchError(startURL)))

\* What holds instead of C12: the error message, and nothing else, is in the
\* linkDetails map the task inserted at its admission, which the Registry may
\* no longer refer to.
ErrorInOwnLinkDetails ==
    /\ \A t \in Goroutines :
          Failed(t) =>
              /\ goroutines[t].link \in DOMAIN discoveredLinks
              /\ goroutines[t].linkDetails =
                     MapSet(<<>>, "err", FetchError(goroutines[t].link))
              /\ Children(t) = {}
              /\ goroutines[t].pc \in {"release", "done", "exited"}
    /\ (Returned /\ startURL \in DOMAIN httpLog
           /\ FetchError(startURL) = <<500, "status code">>) =>
          Registry = MapSet(<<>>, startURL, MapSet(<<>>, "err", FetchError(startURL)))

\* the crawl of a seed answered by 500 has returned
SeedErrored ==
    /\ Returned
    /\ startURL \in DOMAIN httpLog
    /\ FetchError(startURL) = <<500, "status code">>

\* the crawl of the root of mockServer with the allow-list set to its host
FixtureCrawl ==
    /\ server = "fixture"
    /\ allowedDomains = <<H>>
    /\ startURL = Link(H, <<"/">>)

\* C13: the crawl of mockServer from / with the server's host allowed never
\* fetches /image.jpg, fetches / once, and returns with exactly the five keys
\* /, /page1, /page2, /page3 and /image.jpg in the Registry.
C13_EndToEnd ==
    FixtureCrawl =>
        /\ Count(httpLog, Link(H, <<"/", "image", ".", "jpg">>)) = 0
        /\ Count(httpLog, Link(H, <<"/">>)) <= 1
        /\ Returned =>
              /\ DOMAIN discoveredLinks = FixtureLinks
              /\ Count(httpLog, Link(H, <<"/">>)) = 1

\* C13 witness: that crawl has returned with its five keys, the goroutine
\* started for the link from /page1 back to / among the exited ones
C13_Witness ==
    /\ FixtureCrawl
    /\ Returned
    /\ DOMAIN discoveredLinks = FixtureLinks
    /\ discoveredLinks[Link(H, <<"/", "image", ".", "jpg">>)] = LeafMap
    /\ \E t \in Goroutines :
          /\ Len(t) = 3
          /\ t[2] = Link(H, <<"/", "page1">>)
          /\ t[3] = Link(H, <<"/">>)
          /\ goroutines[t].pc = "exited"

\* the elements whose link is to be crawled
TraversalElements == {"a", "link", "iframe", "embed", "object", "source", "script"}

\* the body served for u is markup that the crawler parses for links
MarkupPage(u) ==
    LET got == getURL(ClientDo(server, u))
    IN  /\ got.err = Nil
        /\ got.location = EmptyString
        /\ ~IsScriptOrStyle(got.contentType)
        /\ ~got.body.unparseable

\* the resolved links of the traversal elements of the page served for u
TraversalLinks(u) ==
    IF ~MarkupPage(u) THEN {}
    ELSE LET tree == ClientDo(server, u).Body.tree
         IN  {resolveURL(getAttributeValue(tree[i], <<"src", "href">>), UrlParse(u)) :
                 i \in {j \in 1..Len(tree) :
                           /\ tree[j].Data \in TraversalElements
                           /\ getAttributeValue(tree[j], <<"src", "href">>) # EmptyString}}

\* what extractLinks returned to goroutine t has every traversal link, marked true
ExtractedAll(t) ==
    \A l \in TraversalLinks(goroutines[t].link) :
        l \in DOMAIN goroutines[t].linksDetails /\ goroutines[t].linksDetails[l]

\* a goroutine was started for link l by the goroutine that fetched u
ScheduledFrom(u, l) ==
    \E c \in Goroutines : Len(c) >= 2 /\ c[Len(c)] = l /\ c[Len(c) - 1] = u

\* C14: extraction returns every link of a traversal element with true, whatever
\* its host; when Crawl has returned a task was scheduled for each of them, and
\* those whose host fails Domain Policy have no Registry entry and were not
\* fetched.
C14_ExtractionIgnoresPolicy ==
    /\ \A t \in Goroutines : goroutines[t].pc = "leaves" => ExtractedAll(t)
    /\ Returned =>
          \A u \in DOMAIN httpLog : \A l \in TraversalLinks(u) :
              /\ ScheduledFrom(u, l)
              /\ ~Permitted(l) => l \notin DOMAIN discoveredLinks /\ Count(httpLog, l) = 0

\* What holds instead of C14: the scheduled links rejected by the test of
\* line 101 have no Registry entry and were not fetched.
ExtractionIgnoresIsDomainAllowed ==
    /\ \A t \in Goroutines : goroutines[t].pc = "leaves" => ExtractedAll(t)
    /\ Returned =>
          \A u \in DOMAIN httpLog : \A l \in TraversalLinks(u) :
              /\ ScheduledFrom(u, l)
              /\ Rejected(l) => l \notin DOMAIN discoveredLinks /\ Count(httpLog, l) = 0

\* a link to a foreign host was extracted, scheduled and rejected
ForeignLinkRejected ==
    /\ Returned
    /\ ScheduledFrom(Link(H, <<"/">>), Link(ExtH, <<"/", "p">>))
    /\ Link(ExtH, <<"/", "p">>) \notin DOMAIN discoveredLinks

\* the goroutines that were started and have not run their deferred Done
Outstanding == {t \in Goroutines : goroutines[t].pc # "exited"}

\* C15: the Outstanding Work Counter is the number of tasks scheduled and not
\* yet completed, so it is never negative and never zero while a task runs or
\* has children to start; once the Wait of Crawl has returned, every task has
\* completed and no token is held.
C15_WorkCounter ==
    /\ wait = Cardinality(Outstanding)
    /\ wait >= 0
    /\ mainpc \in {"close", "returned"} =>
          /\ Outstanding = {}
          /\ TokenHolders = {}
          /\ semaphore = 0

\* C15 witness: a parent has run its Done while two of its children have not,
\* and the counter is the number of tasks still outstanding
C15_Witness ==
    /\ mainpc = "wait"
    /\ wait >= 2
    /\ wait = Cardinality(Outstanding)
    /\ \E t \in Goroutines :
          /\ goroutines[t].pc = "exited"
          /\ Cardinality(Children(t) \cap Outstanding) >= 2

\* C16: the tokens in the pool are those of the tasks between their acquire
\* and their release, one each; a task past its release, about to decrement
\* the counter or exited, holds none; when Crawl closes the pool, and ever
\* after, all tokens are free and every task has exited, so none acquires or
\* releases on the closed pool.
C16_TokenRelease ==
    /\ semaphore = Cardinality(TokenHolders)
    /\ \A t \in Goroutines :
          goroutines[t].pc \in {"done", "exited"} => ~HoldsToken(t)
    /\ (mainpc = "close" \/ closed) =>
          /\ semaphore = 0
          /\ \A t \in Goroutines : goroutines[t].pc = "exited"

\* C16 witness: the pool is closed after a crawl whose tasks left by every
\* exit path: a duplicate, a disallowed link, a failed fetch, a failed
\* extraction, a redirect and a page with links
C16_Witness ==
    /\ closed
    /\ semaphore = 0
    /\ server = "mixed"
    /\ startURL = Link(H, <<"/">>)
    /\ \E t, d \in Goroutines : t # d /\ goroutines[t].link = goroutines[d].link
    /\ \E t \in Goroutines : Rejected(goroutines[t].link)
    /\ \E t \in Goroutines : Failed(t)
    /\ \E t \in Goroutines :
          /\ goroutines[t].link = Link(H, <<"/", "e">>)
          /\ DOMAIN goroutines[t].linkDetails = {"contentType"}
    /\ \E t \in Goroutines : "newLocation" \in DOMAIN goroutines[t].linkDetails
    /\ \A t \in Goroutines : goroutines[t].pc = "exited"

\* goroutine t has passed admission: it inserted the entry of its link
Admitted(t) ==
    \/ goroutines[t].pc \in {"fetch", "leaves", "spawn"}
    \/ HasOutcome(goroutines[t].linkDetails)

\* C17: a task holds a token only after it has passed admission, so a task for
\* a URL that is already present, unparseable or disallowed never holds one.
C17_AdmissionBeforeToken ==
    \A t \in TokenHolders :
        /\ Admitted(t)
        /\ goroutines[t].link \in DOMAIN discoveredLinks

\* the response to u has status 301, 302 or 308
RedirectStatus(u) ==
    LET resp == ClientDo(server, u)
    IN  ~resp.failed /\ resp.StatusCode \in RedirectStatuses

\* C18: a task whose fetch was answered by 301, 302 or 308 records a redirect
\* target, whatever the Location header, and never goes on to the handling of
\* extracted links.
C18_RedirectClassification ==
    \A t \in Goroutines :
        (RedirectStatus(goroutines[t].link) /\ HasOutcome(goroutines[t].linkDetails)) =>
            /\ "newLocation" \in DOMAIN goroutines[t].linkDetails
            /\ goroutines[t].pc # "leaves"

\* What holds instead of C18: the redirects that carry a Location are recorded
\* with their target and not extracted from.
RedirectsWithLocationClassified ==
    \A t \in Goroutines :
        (RedirectWithLocation(goroutines[t].link) /\ HasOutcome(goroutines[t].linkDetails)) =>
            /\ "newLocation" \in DOMAIN goroutines[t].linkDetails
            /\ goroutines[t].pc # "leaves"

\* the value of the attribute key of element n, "" when it has none
AttrOf(n, key) ==
    IF \E i \in 1..Len(n.Attr) : n.Attr[i].Key = key
    THEN n.Attr[CHOOSE i \in 1..Len(n.Attr) : n.Attr[i].Key = key].Val
    ELSE EmptyString

\* src, then href
SrcThenHref(n) ==
    IF \E i \in 1..Len(n.Attr) : n.Attr[i].Key = "src"
    THEN AttrOf(n, "src") ELSE AttrOf(n, "href")

\* C19: for a traversal element the value extracted is that of src if the
\* element has a src attribute and that of href otherwise, in whatever order
\* the attributes are written.
C19_AttributePrecedence == mainpc = "valued" => value = SrcThenHref(node)

\* What holds instead of C19: the value is that of whichever of src and href
\* is written first on the element.
FirstOfSrcAndHref ==
    mainpc = "valued" =>
        value = IF \E i \in 1..Len(node.Attr) : node.Attr[i].Key \in {"src", "href"}
                THEN node.Attr[CHOOSE i \in 1..Len(node.Attr) :
                                   /\ node.Attr[i].Key \in {"src", "href"}
                                   /\ \A j \in 1..(i - 1) :
                                         node.Attr[j].Key \notin {"src", "href"}].Val
                ELSE EmptyString

\* C20: on a Crawler whose Crawl has returned, the tasks of a following Crawl
\* acquire their tokens: none fails on the token pool.
C20_ReuseAfterRun == \A t \in Goroutines : goroutines[t].pc # "panicked"

====
